---- MODULE Spec2Model ----
(***************************************************************************)
(* The recorder pages of treat-planner and the browser objects they drive. *)
(*                                                                         *)
(* Two pages implement the recorder: the React page src/pages/index.js     *)
(* and the plain-script page src/public/app.js.  One of them is loaded     *)
(* (variable page); the other keeps its initial state.  Definitions of     *)
(* the plain-script page carry the prefix app_, those of the React page    *)
(* keep the names of index.js.                                             *)
(*                                                                         *)
(* The browser is modelled by what the handlers can observe of it: the     *)
(* clock (Date.now), MediaRecorder objects with their streams, interval    *)
(* timers, pending getUserMedia promises, and the requests in flight.      *)
(*                                                                         *)
(* Time is counted in quanta; one sampling interval of the elapsed-time    *)
(* timer (100 ms, setInterval(..., 100)) is TicksPerSample quanta.         *)
(***************************************************************************)
EXTENDS Integers, Sequences, FiniteSets, TLC

\* ---------------------------------------------------------------- bounds
MaxRecorders == 2
MaxTime == 4
TicksPerSample == 2
MaxSubmits == 2
PollDepth == 1

\* pollTranscription: const maxAttempts = 100
maxAttempts == 100

RecorderIds == 1..MaxRecorders
IntervalIds == 1..MaxRecorders
SubIds == 1..MaxSubmits
Off == -1

\* An optional value is a sequence of length at most one.
Null == <<>>
Blob(chunks) == <<chunks>>

\* ------------------------------------------------------------- messages
MsgProcessing == "Processing transcription..."
MsgMicFailed == "Failed to start recording. Please check microphone permissions."
MsgNoAudio == "No audio recorded. Please record audio first."
MsgUploading == "Uploading audio and processing transcription..."
MsgCompleted == "Transcription completed."
MsgUploadFailed == "Failed to upload audio"
MsgStartFailed == "Failed to start transcription"
MsgStatusFailed == "Failed to get transcription status"
MsgProviderFailed == "Transcription failed"
MsgTimeout == "Transcription timeout. Please try again."
PlaceholderText == "No transcription text available."
app_PlaceholderText == "No transcription text available"
\* err.message of a fetch() that rejects (the browser's TypeError)
MsgFetchRejected == "Failed to fetch"

VARIABLES
  \* which page is loaded, and the last handler or callback that ran
  page, op,
  \* the browser
  now,            \* Date.now(), in quanta
  recState,       \* MediaRecorder.state of each recorder ("none": not created)
  streamOpen,     \* the recorder's MediaStream has a live track
  stopQueued,     \* recorders whose dataavailable + stop events are queued
  acquiring,      \* getUserMedia promises not yet settled
  intervalDue,    \* when each live setInterval timer fires next (Off: none)
  recTime,        \* history: quanta spent Recording since the last start
  subs,           \* each submitTranscription call: where it is, what it has done
  job,            \* the provider's status of each submission's transcription job
  \* src/pages/index.js
  mediaRecorderRef, audioChunksRef, audioBlobRef, timerRef, startTimeRef,
  recordingState, elapsedMs, error, canSubmit,
  transcriptionStatus, transcriptionText, transcriptionMessage, pollTimeoutRef,
  \* src/public/app.js: its globals, and the DOM properties it sets
  mediaRecorder, audioChunks, audioBlob, isRecording, isPaused, startTime,
  elapsedTime, timerInterval,
  recordBtnDisabled, pauseBtnDisabled, stopBtnDisabled, submitBtnDisabled,
  timerText, errorMessage, view, transcriptionContent,
  \* src/pages/api/transcribe.js: the treatment-plans handler and its request
  plan,
  backoffTimer,   \* ms left of the handler's backoff setTimeout (0: none pending)
  \* src/pages/api/transcribe.js, src/server.js: one request to an upload,
  \* transcribe or transcript-status handler
  proxy,
  \* src/pages/planner.js
  planner

browserVars == <<now, recState, streamOpen, stopQueued, acquiring, intervalDue, recTime>>
reactRecVars == <<mediaRecorderRef, audioChunksRef, audioBlobRef, timerRef, startTimeRef,
                  recordingState, elapsedMs, error, canSubmit>>
reactTxVars == <<transcriptionStatus, transcriptionText, transcriptionMessage,
                 pollTimeoutRef>>
netVars == <<subs, job>>
reactVars == <<reactRecVars, reactTxVars>>
appRecVars == <<mediaRecorder, audioChunks, audioBlob, isRecording, isPaused, startTime,
                elapsedTime, timerInterval>>
appDomVars == <<recordBtnDisabled, pauseBtnDisabled, stopBtnDisabled, submitBtnDisabled,
                timerText, errorMessage, view, transcriptionContent>>
appVars == <<appRecVars, appDomVars>>
plannerVars == <<backoffTimer, proxy, planner>>
vars == <<page, op, browserVars, netVars, reactVars, appVars, plan, plannerVars>>

\* ------------------------------------------------------------ the browser
Created == {r \in RecorderIds : recState[r] # "none"}
NewRecorder == Cardinality(Created) + 1
CanAcquire == Cardinality(Created) + acquiring < MaxRecorders
FreeIntervals == {i \in IntervalIds : intervalDue[i] = Off}
NewInterval == CHOOSE i \in FreeIntervals : \A k \in FreeIntervals : i <= k
OpenStreams == {r \in RecorderIds : streamOpen[r]}
ActiveRecorders == {r \in RecorderIds : recState[r] \in {"recording", "paused"}}

\* A submission that has not been made, and the states of one that has:
\*   pc       "upload", "transcribe", "fetch": the request it awaits;
\*            "timer": the setTimeout it waits for; "done": it has ended
\*   rec      history: the recorder of the session it was made in
\*   attempt  index.js: the attempt argument of pollTranscription
\*   attempts app.js: the attempts counter of pollTranscription
\*   fetches  history: status fetches issued
\*   open     history: status fetches issued and not yet answered
\*   out      history: how its last request ended
\*   result   history: how it ended
NoSub == [pc |-> "none", rec |-> 0, attempt |-> 0, attempts |-> 0, fetches |-> 0,
          open |-> 0, out |-> "none", result |-> "none"]
NewSub == CHOOSE j \in SubIds : subs[j].pc = "none" /\ \A k \in SubIds : subs[k].pc = "none" => j <= k
CanSubmit == \E j \in SubIds : subs[j].pc = "none"
InFlight == {j \in SubIds : subs[j].pc \in {"upload", "transcribe", "fetch", "timer"}}

\* The provider's job, while the page polls it: the status a fetch would report,
\* with the text of a completed job or the error detail of a failed one.
NoJob == [status |-> "none", text |-> ""]
JobTexts == {"", "hello"}
JobErrors == {"", "bad audio"}
Terminal(status) == status \in {"completed", "error"}
\* result.text or result.error a provider may give a job in that status
JobDetails(status) ==
  IF status = "completed" THEN JobTexts
  ELSE IF status = "error" THEN JobErrors
  ELSE {""}

\* How a request ends: a success response, a non-success response, a rejected fetch.
Outcomes == {"ok", "notok", "rejected"}

\* clearTimeout(id): a pending timer never fires; any other id is ignored.
clearTimeout(s, j) ==
  IF j # 0 /\ s[j].pc = "timer"
  THEN [s EXCEPT ![j].pc = "done", ![j].result = "cancelled"]
  ELSE s

\* --------------------------------------------------- src/pages/index.js
\* setInterval(cb, 100): the timer fires one sampling interval from now.
setInterval(due, i) == [due EXCEPT ![i] = now + TicksPerSample]
clearInterval(due, i) == IF i = 0 THEN due ELSE [due EXCEPT ![i] = Off]

startTimer ==
  /\ startTimeRef' = now
  /\ elapsedMs' = 0
  /\ timerRef' = NewInterval
  /\ intervalDue' = setInterval(intervalDue, NewInterval)

stopTimer ==
  /\ intervalDue' = clearInterval(intervalDue, timerRef)
  /\ timerRef' = 0

\* startRecording up to its await: the resets, then the getUserMedia call.
startRecording ==
  /\ page = "react"
  /\ CanAcquire
  /\ op' = "startRecording"
  /\ error' = ""
  /\ transcriptionStatus' = "idle"
  /\ transcriptionText' = ""
  /\ transcriptionMessage' = MsgProcessing
  /\ audioChunksRef' = <<>>
  /\ audioBlobRef' = Null
  /\ canSubmit' = FALSE
  /\ acquiring' = acquiring + 1
  /\ UNCHANGED <<page, plan, plannerVars, netVars, appVars, now, recState, streamOpen, stopQueued,
                 intervalDue, recTime, mediaRecorderRef, timerRef, startTimeRef,
                 recordingState, elapsedMs, pollTimeoutRef>>

\* getUserMedia resolved: the rest of the try block.
startRecordingResolved ==
  /\ page = "react"
  /\ acquiring > 0
  /\ op' = "startRecordingResolved"
  /\ acquiring' = acquiring - 1
  /\ streamOpen' = [streamOpen EXCEPT ![NewRecorder] = TRUE]
  /\ recState' = [recState EXCEPT ![NewRecorder] = "recording"]
  /\ mediaRecorderRef' = NewRecorder
  /\ recordingState' = "recording"
  /\ startTimer
  /\ recTime' = 0
  /\ UNCHANGED <<page, plan, plannerVars, netVars, appVars, now, stopQueued, audioChunksRef, audioBlobRef, error, canSubmit,
                 reactTxVars>>

\* A startRecording that marks the session as recording before it knows
\* whether the device was acquired.
startRecordingRejected_entersRecording ==
  /\ page = "react"
  /\ acquiring > 0
  /\ op' = "startRecordingRejected"
  /\ acquiring' = acquiring - 1
  /\ error' = MsgMicFailed
  /\ recordingState' = "recording"
  /\ UNCHANGED <<page, plan, plannerVars, netVars, appVars, now, recState, streamOpen, stopQueued, intervalDue, recTime,
                 mediaRecorderRef, audioChunksRef, audioBlobRef, timerRef, startTimeRef,
                 elapsedMs, canSubmit, reactTxVars>>

\* getUserMedia rejected: the catch block.
startRecordingRejected ==
  /\ page = "react"
  /\ acquiring > 0
  /\ op' = "startRecordingRejected"
  /\ acquiring' = acquiring - 1
  /\ error' = MsgMicFailed
  /\ UNCHANGED <<page, plan, plannerVars, netVars, appVars, now, recState, streamOpen, stopQueued, intervalDue, recTime,
                 mediaRecorderRef, audioChunksRef, audioBlobRef, timerRef, startTimeRef,
                 recordingState, elapsedMs, canSubmit, reactTxVars>>

\* A pauseRecording that only pauses: called on a paused recorder it does nothing.
pauseRecording_pauseOnly ==
  /\ page = "react"
  /\ op' = "pauseRecording"
  /\ LET recorder == mediaRecorderRef IN
     IF recorder # 0 /\ recState[recorder] = "recording" THEN
       /\ recState' = [recState EXCEPT ![recorder] = "paused"]
       /\ recordingState' = "paused"
       /\ stopTimer
       /\ UNCHANGED <<now, streamOpen, stopQueued, acquiring, recTime, mediaRecorderRef,
                      audioChunksRef, audioBlobRef, startTimeRef, elapsedMs, error,
                      canSubmit, reactTxVars>>
     ELSE
       UNCHANGED <<browserVars, reactVars>>
  /\ UNCHANGED <<page, plan, plannerVars, netVars, appVars>>

pauseRecording ==
  /\ page = "react"
  /\ op' = "pauseRecording"
  /\ LET recorder == mediaRecorderRef IN
     IF recorder = 0 THEN
       UNCHANGED <<browserVars, reactVars>>
     ELSE IF recState[recorder] = "recording" THEN
       /\ recState' = [recState EXCEPT ![recorder] = "paused"]
       /\ recordingState' = "paused"
       /\ stopTimer
       /\ UNCHANGED <<now, streamOpen, stopQueued, acquiring, recTime, mediaRecorderRef,
                      audioChunksRef, audioBlobRef, startTimeRef, elapsedMs, error,
                      canSubmit, reactTxVars>>
     ELSE IF recState[recorder] = "paused" THEN
       \* startTimeRef.current = Date.now() - elapsedMs is overwritten by startTimer
       /\ recState' = [recState EXCEPT ![recorder] = "recording"]
       /\ recordingState' = "recording"
       /\ startTimer
       /\ UNCHANGED <<now, streamOpen, stopQueued, acquiring, recTime, mediaRecorderRef,
                      audioChunksRef, audioBlobRef, error, canSubmit, reactTxVars>>
     ELSE
       UNCHANGED <<browserVars, reactVars>>
  /\ UNCHANGED <<page, plan, plannerVars, netVars, appVars>>

stopRecording ==
  /\ page = "react"
  /\ op' = "stopRecording"
  /\ LET recorder == mediaRecorderRef IN
     IF recorder = 0 \/ recState[recorder] = "inactive" THEN
       UNCHANGED <<browserVars, reactVars>>
     ELSE
       /\ recState' = [recState EXCEPT ![recorder] = "inactive"]
       /\ stopQueued' = stopQueued \cup {recorder}
       /\ recordingState' = "stopped"
       /\ stopTimer
       /\ UNCHANGED <<now, streamOpen, acquiring, recTime, mediaRecorderRef,
                      audioChunksRef, audioBlobRef, startTimeRef, elapsedMs, error,
                      canSubmit, reactTxVars>>
  /\ UNCHANGED <<page, plan, plannerVars, netVars, appVars>>

\* recorder.ondataavailable: a chunk of size 0 is dropped.
ondataavailable(chunks, r, size) == IF size > 0 THEN Append(chunks, r) ELSE chunks

\* An onstop that builds the blob and leaves the tracks of the stream running.
recorderStopped_keepsStream(r, size) ==
  /\ page = "react"
  /\ r \in stopQueued
  /\ op' = "onstop"
  /\ stopQueued' = stopQueued \ {r}
  /\ audioChunksRef' = ondataavailable(audioChunksRef, r, size)
  /\ audioBlobRef' = Blob(audioChunksRef')
  /\ canSubmit' = TRUE
  /\ UNCHANGED <<page, plan, plannerVars, netVars, appVars, now, recState, streamOpen, acquiring, intervalDue, recTime,
                 mediaRecorderRef, timerRef, startTimeRef, recordingState, elapsedMs, error,
                 reactTxVars>>

\* The task MediaRecorder.stop() queues: dataavailable, then stop.
recorderStopped(r, size) ==
  /\ page = "react"
  /\ r \in stopQueued
  /\ op' = "onstop"
  /\ stopQueued' = stopQueued \ {r}
  /\ audioChunksRef' = ondataavailable(audioChunksRef, r, size)
  /\ audioBlobRef' = Blob(audioChunksRef')
  /\ canSubmit' = TRUE
  /\ streamOpen' = [streamOpen EXCEPT ![r] = FALSE]
  /\ UNCHANGED <<page, plan, plannerVars, netVars, appVars, now, recState, acquiring, intervalDue, recTime, mediaRecorderRef,
                 timerRef, startTimeRef, recordingState, elapsedMs, error, reactTxVars>>

\* A resetView that returns to the recorder and leaves the transcription as
\* it is.
resetView_keepsTranscription ==
  /\ page = "react"
  /\ op' = "resetView"
  /\ stopTimer
  /\ subs' = clearTimeout(subs, pollTimeoutRef)
  /\ job' = [j \in SubIds |-> IF subs'[j].pc = "done" THEN NoJob ELSE job[j]]
  /\ recordingState' = "idle"
  /\ elapsedMs' = 0
  /\ error' = ""
  /\ canSubmit' = FALSE
  /\ audioChunksRef' = <<>>
  /\ audioBlobRef' = Null
  /\ UNCHANGED <<page, plan, plannerVars, appVars, now, recState, streamOpen, stopQueued, acquiring,
                 recTime, mediaRecorderRef, startTimeRef, reactTxVars>>

resetView ==
  /\ page = "react"
  /\ op' = "resetView"
  /\ stopTimer
  /\ subs' = clearTimeout(subs, pollTimeoutRef)
  /\ job' = [j \in SubIds |-> IF subs'[j].pc = "done" THEN NoJob ELSE job[j]]
  /\ recordingState' = "idle"
  /\ elapsedMs' = 0
  /\ error' = ""
  /\ canSubmit' = FALSE
  /\ audioChunksRef' = <<>>
  /\ audioBlobRef' = Null
  /\ transcriptionStatus' = "idle"
  /\ transcriptionText' = ""
  /\ transcriptionMessage' = MsgProcessing
  /\ UNCHANGED <<page, plan, plannerVars, appVars, now, recState, streamOpen, stopQueued, acquiring,
                 recTime, mediaRecorderRef, startTimeRef, pollTimeoutRef>>

\* The setInterval callback of startTimer.
timerTick(i) ==
  /\ page = "react"
  /\ intervalDue[i] # Off
  /\ intervalDue[i] <= now
  /\ op' = "timerTick"
  /\ elapsedMs' = now - startTimeRef
  /\ intervalDue' = [intervalDue EXCEPT ![i] = now + TicksPerSample]
  /\ UNCHANGED <<page, plan, plannerVars, netVars, appVars, now, recState, streamOpen, stopQueued, acquiring, recTime,
                 mediaRecorderRef, audioChunksRef, audioBlobRef, timerRef, startTimeRef,
                 recordingState, error, canSubmit, reactTxVars>>

\* A progress message that names the other of the two non-terminal statuses.
ProcessingMessage_swapped(status) ==
  IF status = "queued" THEN "Processing transcription... (processing)"
  ELSE "Processing transcription... (queued)"

\* `Processing transcription... (${result.status})`
ProcessingMessage(status) ==
  IF status = "queued" THEN "Processing transcription... (queued)"
  ELSE "Processing transcription... (processing)"

\* A catch block that only logs the error to the console.
catch_logsOnly(message) == UNCHANGED <<transcriptionStatus, transcriptionMessage>>

\* The catch blocks of submitTranscription and executePoll.
catch(message) ==
  /\ transcriptionStatus' = "error"
  /\ transcriptionMessage' = message

\* A submitTranscription that uploads whatever audioBlobRef holds.
noAudio_never(blob) == FALSE

\* if (!audioBlobRef.current)
noAudio(blob) == blob = Null

\* submitTranscription up to its first await: the guard, then the upload request.
submitTranscription ==
  /\ page = "react"
  /\ ~noAudio(audioBlobRef) => CanSubmit
  /\ op' = "submitTranscription"
  /\ IF noAudio(audioBlobRef) THEN
       /\ error' = MsgNoAudio
       /\ UNCHANGED <<subs, reactTxVars>>
     ELSE
       /\ error' = ""
       /\ transcriptionStatus' = "uploading"
       /\ transcriptionText' = ""
       /\ transcriptionMessage' = MsgUploading
       /\ subs' = [subs EXCEPT ![NewSub].pc = "upload", ![NewSub].rec = mediaRecorderRef]
       /\ UNCHANGED pollTimeoutRef
  /\ UNCHANGED <<page, plan, plannerVars, job, appVars, browserVars, mediaRecorderRef, audioChunksRef,
                 audioBlobRef, timerRef, startTimeRef, recordingState, elapsedMs,
                 canSubmit>>

\* A pipeline that goes on to poll whatever the job-creation request returns.
transcribeFailed_never(out) == FALSE

\* A poller that reads every answer to a status fetch as a status.
statusFailed_never(out) == FALSE

\* await fetch(...) rejects, or the response is not ok: the request of the
\* upload, of the job creation, of a status fetch.
uploadFailed(out) == out # "ok"
transcribeFailed(out) == out # "ok"
statusFailed(out) == out # "ok"

\* submitTranscription from the upload response to the job-creation request.
uploadResponded(j, out) ==
  /\ page = "react"
  /\ subs[j].pc = "upload"
  /\ op' = "uploadResponded"
  /\ IF ~uploadFailed(out) THEN
       /\ subs' = [subs EXCEPT ![j].out = out, ![j].pc = "transcribe"]
       /\ UNCHANGED <<transcriptionStatus, transcriptionMessage>>
     ELSE
       /\ catch(IF out = "notok" THEN MsgUploadFailed ELSE MsgFetchRejected)
       /\ subs' = [subs EXCEPT ![j].out = out, ![j].pc = "done", ![j].result = "uploadFailed"]
  /\ UNCHANGED <<page, plan, plannerVars, job, appVars, browserVars, reactRecVars, transcriptionText,
                 pollTimeoutRef>>

\* submitTranscription from the job-creation response on: pollTranscription(id, 0),
\* whose executePoll issues the first status fetch.
transcribeResponded(j, out) ==
  /\ page = "react"
  /\ subs[j].pc = "transcribe"
  /\ op' = "transcribeResponded"
  /\ IF ~transcribeFailed(out) THEN
       /\ subs' = [subs EXCEPT ![j].out = out, ![j].pc = "fetch", ![j].attempt = 0, ![j].fetches = 1, ![j].open = 1]
       /\ job' = [job EXCEPT ![j] = [status |-> "queued", text |-> ""]]
       /\ UNCHANGED <<transcriptionStatus, transcriptionMessage>>
     ELSE
       /\ catch(IF out = "notok" THEN MsgStartFailed ELSE MsgFetchRejected)
       /\ subs' = [subs EXCEPT ![j].out = out, ![j].pc = "done", ![j].result = "startFailed"]
       /\ UNCHANGED job
  /\ UNCHANGED <<page, plan, plannerVars, appVars, browserVars, reactRecVars, transcriptionText,
                 pollTimeoutRef>>

\* A poller that gives up one attempt later.
pollOutcome_lateTimeout(status, attempt) ==
  IF status = "completed" THEN "completed"
  ELSE IF status = "error" THEN "failed"
  ELSE IF attempt + 1 > maxAttempts THEN "timeout"
  ELSE "again"

\* A poller that looks at the attempt count before the status.
pollOutcome_limitFirst(status, attempt) ==
  IF attempt + 1 >= maxAttempts THEN "timeout"
  ELSE IF status = "completed" THEN "completed"
  ELSE IF status = "error" THEN "failed"
  ELSE "again"

\* A poller that takes the error status for one more non-terminal status.
pollOutcome_ignoresError(status, attempt) ==
  IF status = "completed" THEN "completed"
  ELSE IF attempt + 1 >= maxAttempts THEN "timeout"
  ELSE "again"

\* A poller without the attempt limit.
pollOutcome_neverTimeout(status, attempt) ==
  IF status = "completed" THEN "completed"
  ELSE IF status = "error" THEN "failed"
  ELSE "again"

\* executePoll: which way a status response sends it.  The completed and error
\* statuses are looked at before the attempt count.
pollOutcome(status, attempt) ==
  IF status = "completed" THEN "completed"
  ELSE IF status = "error" THEN "failed"
  ELSE IF attempt + 1 >= maxAttempts THEN "timeout"
  ELSE "again"

\* A poller that shows result.text as it is.
resultText_raw(text) == text

\* result.text || "No transcription text available."
resultText(text) == IF text # "" THEN text ELSE PlaceholderText

\* executePoll from the status response on.  depth: the provider answers a
\* fetch with a non-terminal status for the first depth fetches of a job.
executePoll(j, out, depth) ==
  /\ page = "react"
  /\ subs[j].pc = "fetch"
  /\ op' = "executePoll"
  /\ LET result == job[j] IN
     IF statusFailed(out) THEN
       /\ catch(IF out = "notok" THEN MsgStatusFailed ELSE MsgFetchRejected)
       /\ subs' = [subs EXCEPT ![j].out = out, ![j].open = @ - 1, ![j].pc = "done", ![j].result = "transport"]
       /\ UNCHANGED <<transcriptionText, pollTimeoutRef>>
     ELSE IF pollOutcome(result.status, subs[j].attempt) = "completed" THEN
       /\ transcriptionStatus' = "completed"
       /\ transcriptionText' = resultText(result.text)
       /\ transcriptionMessage' = MsgCompleted
       /\ subs' = [subs EXCEPT ![j].out = out, ![j].open = @ - 1, ![j].pc = "done", ![j].result = "completed"]
       /\ UNCHANGED pollTimeoutRef
     ELSE IF pollOutcome(result.status, subs[j].attempt) = "failed" THEN
       /\ catch(IF result.text # "" THEN result.text ELSE MsgProviderFailed)
       /\ subs' = [subs EXCEPT ![j].out = out, ![j].open = @ - 1, ![j].pc = "done", ![j].result = "failed"]
       /\ UNCHANGED <<transcriptionText, pollTimeoutRef>>
     ELSE
       /\ ~Terminal(result.status) => subs[j].fetches <= depth
       /\ IF pollOutcome(result.status, subs[j].attempt) = "timeout" THEN
            /\ catch(MsgTimeout)
            /\ subs' = [subs EXCEPT ![j].out = out, ![j].open = @ - 1, ![j].pc = "done", ![j].result = "timeout"]
            /\ UNCHANGED pollTimeoutRef
          ELSE
            /\ transcriptionStatus' = "processing"
            /\ transcriptionMessage' = ProcessingMessage(result.status)
            /\ pollTimeoutRef' = j
            /\ subs' = [subs EXCEPT ![j].out = out, ![j].open = @ - 1, ![j].pc = "timer"]
       /\ UNCHANGED transcriptionText
  /\ job' = [job EXCEPT ![j] = IF subs'[j].pc = "done" THEN NoJob ELSE @]
  /\ UNCHANGED <<page, plan, plannerVars, appVars, browserVars, reactRecVars>>

\* A timer that keeps firing (setInterval for setTimeout): it issues the next
\* status fetch whether or not the one before it has been answered.
pollTranscription_repeating(j) ==
  /\ page = "react"
  /\ subs[j].pc \in {"timer", "fetch"}
  /\ subs[j].fetches <= maxAttempts
  /\ op' = "pollTranscription"
  /\ subs' = [subs EXCEPT ![j].pc = "fetch", ![j].attempt = @ + 1, ![j].fetches = @ + 1,
                          ![j].open = @ + 1]
  /\ UNCHANGED <<page, plan, plannerVars, job, appVars, browserVars, reactVars>>

\* The setTimeout callback of executePoll: pollTranscription(id, attempt + 1),
\* whose executePoll issues the next status fetch.
pollTranscription(j) ==
  /\ page = "react"
  /\ subs[j].pc = "timer"
  /\ op' = "pollTranscription"
  /\ subs' = [subs EXCEPT ![j].pc = "fetch", ![j].attempt = @ + 1, ![j].fetches = @ + 1,
                          ![j].open = @ + 1]
  /\ UNCHANGED <<page, plan, plannerVars, job, appVars, browserVars, reactVars>>

\* --------------------------------------------------- src/public/app.js
\* updateTimerDisplay: whole minutes and seconds of elapsedTime.  One second is
\* ten sampling intervals.
QuantaPerSecond == 10 * TicksPerSample
updateTimerDisplay(elapsed) ==
  LET totalSeconds == elapsed \div QuantaPerSecond
  IN  <<totalSeconds \div 60, totalSeconds % 60>>

\* updateUI: the disabled flags it sets for the flags given (it leaves
\* pauseBtn.disabled alone in the paused branch).
updateUI_recordBtn(rec, paused) == rec /\ ~paused
updateUI_pauseBtn(rec, paused, old) ==
  IF rec /\ ~paused THEN FALSE ELSE IF paused THEN old ELSE TRUE
updateUI_stopBtn(rec, paused) == ~((rec /\ ~paused) \/ paused)

updateUI(rec, paused) ==
  /\ recordBtnDisabled' = updateUI_recordBtn(rec, paused)
  /\ pauseBtnDisabled' = updateUI_pauseBtn(rec, paused, pauseBtnDisabled)
  /\ stopBtnDisabled' = updateUI_stopBtn(rec, paused)

app_startTimer == 
  /\ timerInterval' = NewInterval
  /\ intervalDue' = setInterval(intervalDue, NewInterval)

app_stopTimer ==
  /\ intervalDue' = clearInterval(intervalDue, timerInterval)
  /\ timerInterval' = 0

\* startRecording up to its await.
app_startRecording ==
  /\ page = "plain"
  /\ CanAcquire
  /\ op' = "startRecording"
  /\ errorMessage' = ""
  /\ acquiring' = acquiring + 1
  /\ UNCHANGED <<page, plan, plannerVars, netVars, reactVars, now, recState, streamOpen, stopQueued, intervalDue,
                 recTime, appRecVars, recordBtnDisabled, pauseBtnDisabled,
                 stopBtnDisabled, submitBtnDisabled, timerText, view,
                 transcriptionContent>>

\* getUserMedia resolved: the rest of the try block.
app_startRecordingResolved ==
  /\ page = "plain"
  /\ acquiring > 0
  /\ op' = "startRecordingResolved"
  /\ acquiring' = acquiring - 1
  /\ streamOpen' = [streamOpen EXCEPT ![NewRecorder] = TRUE]
  /\ recState' = [recState EXCEPT ![NewRecorder] = "recording"]
  /\ mediaRecorder' = NewRecorder
  /\ audioChunks' = <<>>
  /\ elapsedTime' = 0
  /\ isRecording' = TRUE
  /\ isPaused' = FALSE
  /\ startTime' = now
  /\ updateUI(TRUE, FALSE)
  /\ app_startTimer
  /\ recTime' = 0
  /\ UNCHANGED <<page, plan, plannerVars, netVars, reactVars, now, stopQueued, audioBlob, submitBtnDisabled,
                 timerText, errorMessage, view, transcriptionContent>>

\* getUserMedia rejected: the catch block (showError).
app_startRecordingRejected ==
  /\ page = "plain"
  /\ acquiring > 0
  /\ op' = "startRecordingRejected"
  /\ acquiring' = acquiring - 1
  /\ errorMessage' = MsgMicFailed
  /\ UNCHANGED <<page, plan, plannerVars, netVars, reactVars, now, recState, streamOpen, stopQueued, intervalDue,
                 recTime, appRecVars, recordBtnDisabled, pauseBtnDisabled,
                 stopBtnDisabled, submitBtnDisabled, timerText, view,
                 transcriptionContent>>

app_pauseRecording ==
  /\ page = "plain"
  /\ op' = "pauseRecording"
  /\ IF mediaRecorder # 0 /\ recState[mediaRecorder] = "recording" THEN
       /\ recState' = [recState EXCEPT ![mediaRecorder] = "paused"]
       /\ isPaused' = TRUE
       /\ app_stopTimer
       /\ updateUI(isRecording, TRUE)
       /\ UNCHANGED <<now, streamOpen, stopQueued, acquiring, recTime, mediaRecorder,
                      audioChunks, audioBlob, isRecording, startTime, elapsedTime,
                      submitBtnDisabled, timerText, errorMessage, view,
                      transcriptionContent>>
     ELSE IF mediaRecorder # 0 /\ recState[mediaRecorder] = "paused" THEN
       /\ recState' = [recState EXCEPT ![mediaRecorder] = "recording"]
       /\ isPaused' = FALSE
       /\ startTime' = now - elapsedTime
       /\ app_startTimer
       /\ updateUI(isRecording, FALSE)
       /\ UNCHANGED <<now, streamOpen, stopQueued, acquiring, recTime, mediaRecorder,
                      audioChunks, audioBlob, isRecording, elapsedTime,
                      submitBtnDisabled, timerText, errorMessage, view,
                      transcriptionContent>>
     ELSE
       UNCHANGED <<browserVars, appVars>>
  /\ UNCHANGED <<page, plan, plannerVars, netVars, reactVars>>

app_stopRecording ==
  /\ page = "plain"
  /\ op' = "stopRecording"
  /\ IF mediaRecorder # 0 /\ recState[mediaRecorder] # "inactive" THEN
       /\ recState' = [recState EXCEPT ![mediaRecorder] = "inactive"]
       /\ stopQueued' = stopQueued \cup {mediaRecorder}
       /\ isRecording' = FALSE
       /\ isPaused' = FALSE
       /\ app_stopTimer
       /\ updateUI(FALSE, FALSE)
       /\ UNCHANGED <<now, streamOpen, acquiring, recTime, mediaRecorder, audioChunks,
                      audioBlob, startTime, elapsedTime, submitBtnDisabled, timerText,
                      errorMessage, view, transcriptionContent>>
     ELSE
       UNCHANGED <<browserVars, appVars>>
  /\ UNCHANGED <<page, plan, plannerVars, netVars, reactVars>>

\* The task MediaRecorder.stop() queues: dataavailable, then stop.
app_recorderStopped(r, size) ==
  /\ page = "plain"
  /\ r \in stopQueued
  /\ op' = "onstop"
  /\ stopQueued' = stopQueued \ {r}
  /\ audioChunks' = ondataavailable(audioChunks, r, size)
  /\ audioBlob' = Blob(audioChunks')
  /\ submitBtnDisabled' = FALSE
  /\ streamOpen' = [streamOpen EXCEPT ![r] = FALSE]
  /\ UNCHANGED <<page, plan, plannerVars, netVars, reactVars, now, recState, acquiring, intervalDue, recTime,
                 mediaRecorder, isRecording, isPaused, startTime, elapsedTime,
                 timerInterval, recordBtnDisabled, pauseBtnDisabled, stopBtnDisabled,
                 timerText, errorMessage, view, transcriptionContent>>

app_resetView ==
  /\ page = "plain"
  /\ op' = "resetView"
  /\ view' = "recording"
  /\ audioBlob' = Null
  /\ submitBtnDisabled' = TRUE
  /\ timerText' = <<0, 0>>
  /\ errorMessage' = ""
  /\ transcriptionContent' = <<>>
  /\ UNCHANGED <<page, plan, plannerVars, netVars, reactVars, browserVars, mediaRecorder, audioChunks, isRecording,
                 isPaused, startTime, elapsedTime, timerInterval, recordBtnDisabled,
                 pauseBtnDisabled, stopBtnDisabled>>

\* The setInterval callback of startTimer.
app_timerTick(i) ==
  /\ page = "plain"
  /\ intervalDue[i] # Off
  /\ intervalDue[i] <= now
  /\ op' = "timerTick"
  /\ elapsedTime' = now - startTime
  /\ timerText' = updateTimerDisplay(elapsedTime')
  /\ intervalDue' = [intervalDue EXCEPT ![i] = now + TicksPerSample]
  /\ UNCHANGED <<page, plan, plannerVars, netVars, reactVars, now, recState, streamOpen, stopQueued, acquiring,
                 recTime, mediaRecorder, audioChunks, audioBlob, isRecording, isPaused,
                 startTime, timerInterval, recordBtnDisabled, pauseBtnDisabled,
                 stopBtnDisabled, submitBtnDisabled, errorMessage, view,
                 transcriptionContent>>

\* showErrorInTranscription, and the finally block of submitTranscription.
showErrorInTranscription(message) == transcriptionContent' = <<"error", message>>

\* if (!audioBlob)
app_noAudio(blob) == blob = Null

app_submitTranscription ==
  /\ page = "plain"
  /\ ~app_noAudio(audioBlob) => CanSubmit
  /\ op' = "submitTranscription"
  /\ IF app_noAudio(audioBlob) THEN
       /\ errorMessage' = MsgNoAudio
       /\ UNCHANGED <<subs, submitBtnDisabled, view, transcriptionContent>>
     ELSE
       /\ errorMessage' = ""
       /\ submitBtnDisabled' = TRUE
       /\ view' = "transcription"
       /\ transcriptionContent' = <<"loading", MsgUploading>>
       /\ subs' = [subs EXCEPT ![NewSub].pc = "upload", ![NewSub].rec = mediaRecorder]
  /\ UNCHANGED <<page, plan, plannerVars, job, reactVars, browserVars, appRecVars, recordBtnDisabled,
                 pauseBtnDisabled, stopBtnDisabled, timerText>>

app_uploadFailed(out) == out # "ok"
app_transcribeFailed(out) == out # "ok"
app_statusFailed(out) == out # "ok"

app_uploadResponded(j, out) ==
  /\ page = "plain"
  /\ subs[j].pc = "upload"
  /\ op' = "uploadResponded"
  /\ IF ~app_uploadFailed(out) THEN
       /\ subs' = [subs EXCEPT ![j].out = out, ![j].pc = "transcribe"]
       /\ UNCHANGED <<transcriptionContent, submitBtnDisabled>>
     ELSE
       /\ showErrorInTranscription(IF out = "notok" THEN MsgUploadFailed ELSE MsgFetchRejected)
       /\ submitBtnDisabled' = FALSE
       /\ subs' = [subs EXCEPT ![j].out = out, ![j].pc = "done", ![j].result = "uploadFailed"]
  /\ UNCHANGED <<page, plan, plannerVars, job, reactVars, browserVars, appRecVars, recordBtnDisabled,
                 pauseBtnDisabled, stopBtnDisabled, timerText, errorMessage, view>>

\* From the job-creation response on: pollTranscription issues the first status
\* fetch and returns, and the finally block re-enables the submit button.
app_transcribeResponded(j, out) ==
  /\ page = "plain"
  /\ subs[j].pc = "transcribe"
  /\ op' = "transcribeResponded"
  /\ IF ~app_transcribeFailed(out) THEN
       /\ subs' = [subs EXCEPT ![j].out = out, ![j].pc = "fetch", ![j].attempts = 0, ![j].fetches = 1, ![j].open = 1]
       /\ job' = [job EXCEPT ![j] = [status |-> "queued", text |-> ""]]
       /\ UNCHANGED transcriptionContent
     ELSE
       /\ showErrorInTranscription(IF out = "notok" THEN MsgStartFailed ELSE MsgFetchRejected)
       /\ subs' = [subs EXCEPT ![j].out = out, ![j].pc = "done", ![j].result = "startFailed"]
       /\ UNCHANGED job
  /\ submitBtnDisabled' = FALSE
  /\ UNCHANGED <<page, plan, plannerVars, reactVars, browserVars, appRecVars, recordBtnDisabled,
                 pauseBtnDisabled, stopBtnDisabled, timerText, errorMessage, view>>

\* poll: which way a status response sends it; attempts is the counter before
\* its increment.
app_pollOutcome(status, attempts) ==
  IF status = "completed" THEN "completed"
  ELSE IF status = "error" THEN "failed"
  ELSE IF attempts + 1 >= maxAttempts THEN "timeout"
  ELSE "again"

\* result.text || "No transcription text available"
app_resultText(text) == IF text # "" THEN text ELSE app_PlaceholderText

\* poll from the status response on.
app_poll(j, out, depth) ==
  /\ page = "plain"
  /\ subs[j].pc = "fetch"
  /\ op' = "poll"
  /\ LET result == job[j] IN
     IF app_statusFailed(out) THEN
       /\ showErrorInTranscription(IF out = "notok" THEN MsgStatusFailed ELSE MsgFetchRejected)
       /\ subs' = [subs EXCEPT ![j].out = out, ![j].open = @ - 1, ![j].pc = "done", ![j].result = "transport"]
     ELSE IF app_pollOutcome(result.status, subs[j].attempts) = "completed" THEN
       /\ transcriptionContent' = <<"text", app_resultText(result.text)>>
       /\ subs' = [subs EXCEPT ![j].out = out, ![j].open = @ - 1, ![j].pc = "done", ![j].result = "completed"]
     ELSE IF app_pollOutcome(result.status, subs[j].attempts) = "failed" THEN
       /\ showErrorInTranscription(IF result.text # "" THEN result.text ELSE MsgProviderFailed)
       /\ subs' = [subs EXCEPT ![j].out = out, ![j].open = @ - 1, ![j].pc = "done", ![j].result = "failed"]
     ELSE
       /\ ~Terminal(result.status) => subs[j].fetches <= depth
       /\ IF app_pollOutcome(result.status, subs[j].attempts) = "timeout" THEN
            /\ showErrorInTranscription(MsgTimeout)
            /\ subs' = [subs EXCEPT ![j].out = out, ![j].open = @ - 1, ![j].pc = "done", ![j].attempts = @ + 1,
                                    ![j].result = "timeout"]
          ELSE
            /\ transcriptionContent' = <<"loading", ProcessingMessage(result.status)>>
            /\ subs' = [subs EXCEPT ![j].out = out, ![j].open = @ - 1, ![j].pc = "timer", ![j].attempts = @ + 1]
  /\ job' = [job EXCEPT ![j] = IF subs'[j].pc = "done" THEN NoJob ELSE @]
  /\ UNCHANGED <<page, plan, plannerVars, reactVars, browserVars, appRecVars, recordBtnDisabled,
                 pauseBtnDisabled, stopBtnDisabled, submitBtnDisabled, timerText,
                 errorMessage, view>>

\* The setTimeout(poll, 3000) callback: poll issues the next status fetch.
app_pollTimeout(j) ==
  /\ page = "plain"
  /\ subs[j].pc = "timer"
  /\ op' = "pollTimeout"
  /\ subs' = [subs EXCEPT ![j].pc = "fetch", ![j].fetches = @ + 1, ![j].open = @ + 1]
  /\ UNCHANGED <<page, plan, plannerVars, job, reactVars, browserVars, appVars>>

\* ---------------------------------------------------------- the provider
\* A job only moves forward: queued, processing, then completed or error.
jobAdvances(j, status, text) ==
  /\ j \in InFlight
  /\ job[j].status \in {"queued", "processing"}
  /\ status = "processing" => job[j].status = "queued"
  /\ text \in JobDetails(status)
  /\ op' = "jobAdvances"
  /\ job' = [job EXCEPT ![j] = [status |-> status, text |-> text]]
  /\ UNCHANGED <<page, plan, plannerVars, subs, browserVars, reactVars, appVars>>

\* ------------------------------------------------------------------ time
\* The clock advances by one quantum once every due timer has fired.
SessionRecorder == IF page = "react" THEN mediaRecorderRef ELSE mediaRecorder
Advance ==
  /\ now < MaxTime
  /\ \A i \in IntervalIds : intervalDue[i] = Off \/ intervalDue[i] > now
  /\ op' = "Advance"
  /\ now' = now + 1
  /\ recTime' = IF SessionRecorder # 0 /\ recState[SessionRecorder] = "recording"
                THEN recTime + 1 ELSE recTime
  /\ UNCHANGED <<page, plan, plannerVars, netVars, appVars, recState, streamOpen, stopQueued, acquiring, intervalDue, reactVars>>

\* ------------------------------- src/pages/api/transcribe.js: the planner
\* The handler of the treatment-plans route.  Texts are sequences of words.
\*   pc       "idle": no request yet; "post": it awaits axios.post;
\*            "backoff": it waits 2000 ms before the retry; "done": it answered
\*   req      the request: its method, session_id and treatment_planner_text
\*   attempt  the loop variable
\*   posts    history: upstream requests made for this request
\*   errors   history: the errors axios.post threw, in order (lastError is
\*            the last of them)
\*   status, details   the response: res.status(...), and details of its body
planner_maxAttempts == 2
backoffMs == 2000
NoRequest == [method |-> "", session_id |-> "", text |-> <<>>]
NoPlan == [pc |-> "idle", req |-> NoRequest, attempt |-> 0, posts |-> 0,
           errors |-> <<>>, status |-> 0, details |-> <<>>]
PlanRequests ==
  [method : {"POST", "GET"}, session_id : {"", "s1"}, text : {<<>>, <<"botox">>}]
\* What axios.post can throw: error.code, error.message, error.response?.data.
PlanErrors ==
  [code : {"", "ECONNABORTED", "ETIMEDOUT", "ERR_BAD_REQUEST"},
   message : {<<>>, <<"timeout", "of", "180000ms", "exceeded">>, <<"Gateway", "Timeout">>,
              <<"Request", "failed">>},
   response : {<<>>, <<"upstream", "error">>}]
MsgPlanFailed == <<"Failed", "to", "generate", "treatment", "plans">>

\* String.prototype.toLowerCase, on the words that occur
toLowerCase(w) ==
  IF w \in {"Timeout", "TIMEOUT"} THEN "timeout"
  ELSE IF w = "Gateway" THEN "gateway"
  ELSE IF w = "Request" THEN "request"
  ELSE w
\* message?.toLowerCase().includes("timeout")
includesTimeout(message) ==
  \E i \in 1..Len(message) : toLowerCase(message[i]) = "timeout"

\* A test that goes by the error code alone.
timeoutLike_codeOnly(err) == err.code \in {"ECONNABORTED", "ETIMEDOUT"}

timeoutLike(err) ==
  \/ err.code = "ECONNABORTED"
  \/ err.code = "ETIMEDOUT"
  \/ includesTimeout(err.message)

\* A handler that retries whatever the error.
shouldRetry_always(attempt, err) == attempt < planner_maxAttempts

\* if (attempt < maxAttempts && timeoutLike)
shouldRetry(attempt, err) == attempt < planner_maxAttempts /\ timeoutLike(err)

\* error.response?.data || error.message || "Failed to generate treatment plans"
errorDetails(err) ==
  IF err.response # <<>> THEN err.response
  ELSE IF err.message # <<>> THEN err.message
  ELSE MsgPlanFailed

\* handler up to its first await: the method and body checks, then the first
\* axios.post.
handler(req) ==
  /\ plan.pc \in {"idle", "done"}
  /\ req \in PlanRequests
  /\ plan' =
       IF req.method # "POST" THEN
         [NoPlan EXCEPT !.pc = "done", !.req = req, !.status = 405]
       ELSE IF req.session_id = "" \/ req.text = <<>> THEN
         [NoPlan EXCEPT !.pc = "done", !.req = req, !.status = 400]
       ELSE
         [NoPlan EXCEPT !.pc = "post", !.req = req, !.attempt = 1, !.posts = 1]
  /\ UNCHANGED <<page, op, browserVars, netVars, reactVars, appVars, plannerVars>>

\* axios.post resolved: res.status(200).json(response.data)
handler_postResolved ==
  /\ plan.pc = "post"
  /\ plan' = [plan EXCEPT !.pc = "done", !.status = 200]
  /\ UNCHANGED <<page, op, browserVars, netVars, reactVars, appVars, plannerVars>>

\* axios.post threw: the catch block.
handler_postRejected(err) ==
  /\ plan.pc = "post"
  /\ err \in PlanErrors
  /\ plan' =
       IF shouldRetry(plan.attempt, err) THEN
         [plan EXCEPT !.pc = "backoff", !.errors = Append(@, err)]
       ELSE
         [plan EXCEPT !.pc = "done", !.errors = Append(@, err),
                      !.details = errorDetails(err),
                      !.status = IF timeoutLike(err) THEN 504 ELSE 500]
  \* await new Promise((r) => setTimeout(r, 2000))
  /\ backoffTimer' = IF shouldRetry(plan.attempt, err) THEN backoffMs ELSE backoffTimer
  /\ UNCHANGED <<page, op, browserVars, netVars, reactVars, appVars, proxy, planner>>

\* The server's clock moves on by a second while the handler sleeps.
handler_backoffTick ==
  /\ plan.pc = "backoff"
  /\ backoffTimer > 0
  /\ backoffTimer' = IF backoffTimer > 1000 THEN backoffTimer - 1000 ELSE 0
  /\ UNCHANGED <<page, op, browserVars, netVars, reactVars, appVars, plan, proxy, planner>>

\* A handler whose sleep may end at any moment.
handler_backoffElapsed_noWait ==
  /\ plan.pc = "backoff"
  /\ plan' = [plan EXCEPT !.pc = "post", !.attempt = @ + 1, !.posts = @ + 1]
  /\ backoffTimer' = 0
  /\ UNCHANGED <<page, op, browserVars, netVars, reactVars, appVars, proxy, planner>>

\* The 2000 ms backoff elapsed: continue, attempt++, the next axios.post.
handler_backoffElapsed ==
  /\ plan.pc = "backoff"
  /\ backoffTimer = 0
  /\ plan' = [plan EXCEPT !.pc = "post", !.attempt = @ + 1, !.posts = @ + 1]
  /\ UNCHANGED <<page, op, browserVars, netVars, reactVars, appVars, plannerVars>>

\* The upstream requests of the invocation that have been issued and have
\* neither failed nor been answered.
PlanInFlight ==
  plan.posts - Len(plan.errors) - (IF plan.status = 200 THEN 1 ELSE 0)

\* ------------------------------------------------------------ the proxies
\* The upload, transcribe and transcript-status handlers of
\* src/pages/api/transcribe.js and the upload and transcribe routes of
\* src/server.js, one request at a time.  A request carries its method and its
\* input: "none" (no body in the encoding the handler parses), "object" (a
\* parsed body or query without the field), "blank" (the field is the empty
\* string) or "value".
NoProxy == [handler |-> "", pc |-> "idle", req |-> [method |-> "", input |-> ""],
            upstream |-> 0, status |-> 0]
UploadRequests == [method : {"POST", "GET"}, input : {"none", "object", "value"}]
JsonRequests == [method : {"POST", "GET"}, input : {"none", "object", "blank", "value"}]
QueryRequests == [method : {"POST", "GET"}, input : {"object", "blank", "value"}]

\* The field the handler destructures from a parsed body or query: undefined
\* (<<>>), the empty string, or a value.
fieldOf(input) ==
  IF input = "blank" THEN <<"">> ELSE IF input = "value" THEN <<"v">> ELSE <<>>
\* !x of a field
falsy(field) == field = <<>> \/ field = <<"">>
\* express.json(): a request without a JSON body leaves req.body an empty
\* object or undefined, depending on the body parser's version.
expressJson(input) == IF input = "none" THEN {"none", "object"} ELSE {input}

respond(name, req, status) ==
  [NoProxy EXCEPT !.handler = name, !.pc = "done", !.req = req, !.status = status]
callUpstream(name, req) ==
  [NoProxy EXCEPT !.handler = name, !.pc = "upstream", !.req = req, !.upstream = 1]

\* transcribe.js 4-31 up to its await.  process.env.ASSEMBLYAI_API_KEY || "dcdc..."
\* is never empty, so the 500 of line 11 is not reachable.
transcribe_handler(req) ==
  /\ proxy.pc \in {"idle", "done"}
  /\ req \in JsonRequests
  /\ proxy' =
       IF req.method # "POST" THEN respond("transcribe", req, 405)
       \* const { audioUrl } = req.body || {}
       ELSE IF falsy(fieldOf(IF req.input = "none" THEN "object" ELSE req.input))
       THEN respond("transcribe", req, 400)
       ELSE callUpstream("transcribe", req)
  /\ UNCHANGED <<page, op, browserVars, netVars, reactVars, appVars, plan, backoffTimer,
                 planner>>

\* transcribe.js 37-64 up to its await
status_handler(req) ==
  /\ proxy.pc \in {"idle", "done"}
  /\ req \in QueryRequests
  /\ proxy' =
       IF req.method # "GET" THEN respond("status", req, 405)
       ELSE IF falsy(fieldOf(req.input)) THEN respond("status", req, 400)
       ELSE callUpstream("status", req)
  /\ UNCHANGED <<page, op, browserVars, netVars, reactVars, appVars, plan, backoffTimer,
                 planner>>

\* parseForm: form.parse reports an error for a request that is no parsable
\* form and the promise rejects; otherwise files.audio is the file or undefined.
parseForm(input) ==
  IF input = "none" THEN [rejected |-> TRUE, file |-> <<>>]
  ELSE [rejected |-> FALSE, file |-> fieldOf(input)]

\* transcribe.js 193-228 up to axios.post: parseForm, the file check and
\* fs.readFile, whose failures the catch block answers with 500.
upload_handler(req, readable) ==
  /\ proxy.pc \in {"idle", "done"}
  /\ req \in UploadRequests
  /\ readable \in BOOLEAN
  /\ proxy' =
       IF req.method # "POST" THEN respond("upload", req, 405)
       ELSE IF parseForm(req.input).rejected THEN respond("upload", req, 500)
       ELSE IF parseForm(req.input).file = <<>> THEN respond("upload", req, 400)
       ELSE IF ~readable THEN respond("upload", req, 500)
       ELSE callUpstream("upload", req)
  /\ UNCHANGED <<page, op, browserVars, netVars, reactVars, appVars, plan, backoffTimer,
                 planner>>

\* server.js 36-57 up to its await.  The route answers POST only; multer passes
\* a request that is no multipart form on, with req.file undefined.
server_upload(req) ==
  /\ proxy.pc \in {"idle", "done"}
  /\ req \in UploadRequests
  /\ req.method = "POST"
  /\ proxy' =
       IF fieldOf(req.input) = <<>> THEN respond("server_upload", req, 400)
       ELSE callUpstream("server_upload", req)
  /\ UNCHANGED <<page, op, browserVars, netVars, reactVars, appVars, plan, backoffTimer,
                 planner>>

\* server.js 60-85 up to its await: const { audioUrl } = req.body throws when
\* req.body is undefined, and the catch block answers with 500.
server_transcribe(req, body) ==
  /\ proxy.pc \in {"idle", "done"}
  /\ req \in JsonRequests
  /\ req.method = "POST"
  /\ body \in expressJson(req.input)
  /\ proxy' =
       IF body = "none" THEN respond("server_transcribe", req, 500)
       ELSE IF falsy(fieldOf(body)) THEN respond("server_transcribe", req, 400)
       ELSE callUpstream("server_transcribe", req)
  /\ UNCHANGED <<page, op, browserVars, netVars, reactVars, appVars, plan, backoffTimer,
                 planner>>

\* The upstream call resolved: 200 with the upstream's data.
proxy_upstreamResolved ==
  /\ proxy.pc = "upstream"
  /\ proxy' = [proxy EXCEPT !.pc = "done", !.status = 200]
  /\ UNCHANGED <<page, op, browserVars, netVars, reactVars, appVars, plan, backoffTimer,
                 planner>>

\* The upstream call threw: the catch block, 500.
proxy_upstreamRejected ==
  /\ proxy.pc = "upstream"
  /\ proxy' = [proxy EXCEPT !.pc = "done", !.status = 500]
  /\ UNCHANGED <<page, op, browserVars, netVars, reactVars, appVars, plan, backoffTimer,
                 planner>>

\* ------------------------------------------------------------ the planner page
\* src/pages/planner.js.  planner.pc: "unloaded" before the mount effect has
\* run, "fetch" while callPlanner awaits /api/treatment-plans, "idle" otherwise.
\* planner.stored is the sessionStorage item "planner:transcription" found on
\* load (<<>>: no item, <<text>>: the item), planner.requests counts the fetches.
MaxPlannerRequests == 2
MsgNoText == <<"No", "transcription", "text", "found.", "Go", "back", "and", "generate",
               "a", "transcript", "first.">>
StoredItems == {<<>>, << <<>> >>, << <<"botox">> >>}
NoPlanner == [pc |-> "unloaded", stored |-> <<>>, transcriptionText |-> <<>>,
              sessionId |-> "", status |-> "idle", plans |-> 0, selectedPlanId |-> 0,
              error |-> <<>>, requests |-> 0]

\* window.sessionStorage.getItem("planner:transcription") || ""
loadTranscription(item) == IF item = <<>> THEN <<>> ELSE item[1]

\* callPlanner up to its await: the state it sets and the fetch it issues.
callPlanner(p) ==
  [p EXCEPT !.error = <<>>, !.status = "loading", !.sessionId = "s1", !.pc = "fetch",
            !.requests = @ + 1]
\* callPlanner's catch block: err.message || "Failed to generate treatment plans"
callPlanner_catch(p, message) ==
  [p EXCEPT !.pc = "idle", !.status = "error",
            !.error = IF message # <<>> THEN message ELSE MsgPlanFailed]

\* The mount effect (planner.js 133-141)
planner_useEffect(item) ==
  /\ planner.pc = "unloaded"
  /\ item \in StoredItems
  /\ LET text == loadTranscription(item)
         p == [planner EXCEPT !.pc = "idle", !.stored = item, !.transcriptionText = text]
     IN  planner' = IF text # <<>> THEN callPlanner(p) ELSE [p EXCEPT !.error = MsgNoText]
  /\ UNCHANGED <<page, op, browserVars, netVars, reactVars, appVars, plan, backoffTimer,
                 proxy>>

\* The page's POST reaches the treatment-plans handler.
planner_fetchReceived ==
  /\ planner.pc = "fetch"
  /\ plan.pc = "idle"
  /\ handler([method |-> "POST", session_id |-> planner.sessionId,
              text |-> planner.transcriptionText])

\* errBody.error of a response that is not ok
errBody(status) ==
  IF status = 405 THEN <<"Method", "not", "allowed">>
  ELSE IF status = 400 THEN <<"session_id", "and", "treatment_planner_text", "are", "required">>
  ELSE MsgPlanFailed

\* The handler answered: callPlanner after its await (planner.js 111-130).
\* treatment_plans holds some plans or none.
callPlanner_responded(n) ==
  /\ planner.pc = "fetch"
  /\ plan.pc = "done"
  /\ n \in 0..1
  /\ planner' =
       IF plan.status = 200
       THEN [planner EXCEPT !.pc = "idle", !.plans = n, !.status = "ready"]
       ELSE callPlanner_catch(planner, errBody(plan.status))
  /\ plan' = NoPlan
  /\ UNCHANGED <<page, op, browserVars, netVars, reactVars, appVars, backoffTimer, proxy>>

\* fetch rejected with its "Failed to fetch": the request never reached the
\* handler.
callPlanner_fetchFailed ==
  /\ planner.pc = "fetch"
  /\ plan.pc = "idle"
  /\ planner' = callPlanner_catch(planner, <<"Failed", "to", "fetch">>)
  /\ UNCHANGED <<page, op, browserVars, netVars, reactVars, appVars, plan, backoffTimer,
                 proxy>>

\* What the error panel shows (planner.js 236-248): nothing unless status is
\* "error".
planner_errorPanel ==
  IF planner.status # "error" THEN <<>>
  ELSE IF planner.error # <<>> THEN planner.error
  ELSE <<"Unable", "to", "generate", "treatment", "plans.">>

\* "Retry", rendered in the error panel when there is a transcript
planner_retry ==
  /\ planner.status = "error"
  /\ planner.transcriptionText # <<>>
  /\ planner.requests < MaxPlannerRequests
  /\ planner' = callPlanner(planner)
  /\ UNCHANGED <<page, op, browserVars, netVars, reactVars, appVars, plan, backoffTimer,
                 proxy>>

\* "Select" on a plan card, or "Change Selection" once a plan is selected
planner_select ==
  /\ \/ /\ planner.status = "ready"
        /\ planner.plans > 0
        /\ planner' = [planner EXCEPT !.selectedPlanId = 1, !.status = "selected"]
     \/ /\ planner.status = "selected"
        /\ planner' = [planner EXCEPT !.status = "ready"]
  /\ UNCHANGED <<page, op, browserVars, netVars, reactVars, appVars, plan, backoffTimer,
                 proxy>>

\* ------------------------------------------------------------ the system
\* The state once the page has loaded.  public/index.html is not among the
\* sources: the plain-script page starts with the disabled flags that updateUI
\* sets in its idle branch, submitBtn disabled as resetView leaves it, and the
\* recording view shown.
Init ==
  /\ page \in {"react", "plain"}
  /\ op = "load"
  /\ now = 0
  /\ recState = [r \in RecorderIds |-> "none"]
  /\ streamOpen = [r \in RecorderIds |-> FALSE]
  /\ stopQueued = {}
  /\ acquiring = 0
  /\ intervalDue = [i \in IntervalIds |-> Off]
  /\ recTime = 0
  /\ mediaRecorderRef = 0
  /\ audioChunksRef = <<>>
  /\ audioBlobRef = Null
  /\ timerRef = 0
  /\ startTimeRef = 0
  /\ recordingState = "idle"
  /\ elapsedMs = 0
  /\ error = ""
  /\ canSubmit = FALSE
  /\ transcriptionStatus = "idle"
  /\ transcriptionText = ""
  /\ transcriptionMessage = MsgProcessing
  /\ pollTimeoutRef = 0
  /\ subs = [j \in SubIds |-> NoSub]
  /\ job = [j \in SubIds |-> NoJob]
  /\ mediaRecorder = 0
  /\ audioChunks = <<>>
  /\ audioBlob = Null
  /\ isRecording = FALSE
  /\ isPaused = FALSE
  /\ startTime = 0
  /\ elapsedTime = 0
  /\ timerInterval = 0
  /\ recordBtnDisabled = FALSE
  /\ pauseBtnDisabled = TRUE
  /\ stopBtnDisabled = TRUE
  /\ submitBtnDisabled = TRUE
  /\ timerText = <<0, 0>>
  /\ errorMessage = ""
  /\ view = "recording"
  /\ transcriptionContent = <<>>
  /\ plan = NoPlan
  /\ backoffTimer = 0
  /\ proxy = NoProxy
  /\ planner = NoPlanner

\* What the browser does for the recorder, whatever the user does.
RecorderCallbacks ==
  \/ startRecordingResolved
  \/ startRecordingRejected
  \/ \E r \in RecorderIds, size \in 0..1 : recorderStopped(r, size)
  \/ app_startRecordingResolved
  \/ app_startRecordingRejected
  \/ \E r \in RecorderIds, size \in 0..1 : app_recorderStopped(r, size)

\* What the network and the provider do.
NetCallbacks(depth) ==
  \/ \E j \in SubIds, out \in Outcomes : uploadResponded(j, out)
  \/ \E j \in SubIds, out \in Outcomes : transcribeResponded(j, out)
  \/ \E j \in SubIds, out \in Outcomes : executePoll(j, out, depth)
  \/ \E j \in SubIds : pollTranscription(j)
  \/ \E j \in SubIds, out \in Outcomes : app_uploadResponded(j, out)
  \/ \E j \in SubIds, out \in Outcomes : app_transcribeResponded(j, out)
  \/ \E j \in SubIds, out \in Outcomes : app_poll(j, out, depth)
  \/ \E j \in SubIds : app_pollTimeout(j)
  \/ \E j \in SubIds, status \in {"processing", "completed", "error"},
        text \in JobTexts \cup JobErrors : jobAdvances(j, status, text)

\* The clock and the elapsed-time timers.
Clock ==
  \/ \E i \in IntervalIds : timerTick(i)
  \/ \E i \in IntervalIds : app_timerTick(i)
  \/ Advance

\* index.js: the disabled attributes of the buttons (the Record Again button
\* has none).
recordDisabled == recordingState \in {"recording", "paused"}
pauseDisabled == ~(recordingState \in {"recording", "paused"})
stopDisabled == ~(recordingState \in {"recording", "paused"})
submitDisabled == ~canSubmit

\* app.js: a button of the recording view can be clicked when the view is shown
\* and the button is not disabled; the back button belongs to the
\* transcription view.
app_clickable(disabled) == view = "recording" /\ ~disabled
app_backShown == view = "transcription"

\* The recorder's handlers, called by a click on a button that is enabled.
RecorderClicks ==
  \/ ~recordDisabled /\ startRecording
  \/ ~pauseDisabled /\ pauseRecording
  \/ ~stopDisabled /\ stopRecording
  \/ app_clickable(recordBtnDisabled) /\ app_startRecording
  \/ app_clickable(pauseBtnDisabled) /\ app_pauseRecording
  \/ app_clickable(stopBtnDisabled) /\ app_stopRecording

\* The pages as a user drives them: every handler runs on a click on its button.
Next ==
  \/ RecorderClicks
  \/ resetView
  \/ ~submitDisabled /\ submitTranscription
  \/ app_backShown /\ app_resetView
  \/ app_clickable(submitBtnDisabled) /\ app_submitTranscription
  \/ RecorderCallbacks
  \/ NetCallbacks(PollDepth)
Spec == Init /\ [][Next]_vars

\* The handlers called in any state, whatever the buttons allow; a recording
\* is submitted once the submission before it has ended.
NextApi ==
  \/ startRecording
  \/ pauseRecording
  \/ stopRecording
  \/ resetView
  \/ (audioBlobRef # Null => InFlight = {}) /\ submitTranscription
  \/ app_startRecording
  \/ app_pauseRecording
  \/ app_stopRecording
  \/ app_resetView
  \/ (audioBlob # Null => InFlight = {}) /\ app_submitTranscription
  \/ RecorderCallbacks
  \/ NetCallbacks(PollDepth)
SpecApi == Init /\ [][NextApi]_vars

\* The recorder and its clock, without submissions.
NextTimer ==
  \/ RecorderClicks
  \/ resetView
  \/ RecorderCallbacks
  \/ Clock
SpecTimer == Init /\ [][NextTimer]_vars

\* The poller at its full depth: one recording is made, stopped and submitted,
\* the view may be reset, and the provider may answer every fetch with a
\* non-terminal status.  submitTranscription and resetView are called in any
\* state.
Submitted == {j \in SubIds : subs[j].pc # "none"}
NextPoll ==
  \/ Created = {} /\ acquiring = 0 /\ startRecording
  \/ ~stopDisabled /\ stopRecording
  \/ resetView
  \/ (audioBlobRef # Null => Submitted = {}) /\ submitTranscription
  \/ Created = {} /\ acquiring = 0 /\ app_startRecording
  \/ app_clickable(stopBtnDisabled) /\ app_stopRecording
  \/ app_resetView
  \/ (audioBlob # Null => Submitted = {}) /\ app_submitTranscription
  \/ RecorderCallbacks
  \/ NetCallbacks(maxAttempts)
SpecPoll == Init /\ [][NextPoll]_vars

\* The recorder's handlers called in any state, with the clock.
NextRec ==
  \/ startRecording
  \/ pauseRecording
  \/ stopRecording
  \/ resetView
  \/ app_startRecording
  \/ app_pauseRecording
  \/ app_stopRecording
  \/ app_resetView
  \/ RecorderCallbacks
  \/ Clock
SpecRec == Init /\ [][NextRec]_vars

\* Recovery from errors: the handlers called in any state, with one submission.
NextRecover ==
  \/ startRecording
  \/ stopRecording
  \/ resetView
  \/ (audioBlobRef # Null => Submitted = {}) /\ submitTranscription
  \/ app_startRecording
  \/ app_stopRecording
  \/ app_resetView
  \/ (audioBlob # Null => Submitted = {}) /\ app_submitTranscription
  \/ RecorderCallbacks
  \/ NetCallbacks(PollDepth)
SpecRecover == Init /\ [][NextRecover]_vars

\* The poller at its full depth when the view is never reset, every request is
\* answered and every timer fires.
PipelineSteps ==
  \/ \E j \in SubIds, out \in Outcomes : uploadResponded(j, out)
  \/ \E j \in SubIds, out \in Outcomes : transcribeResponded(j, out)
  \/ \E j \in SubIds, out \in Outcomes : executePoll(j, out, maxAttempts)
  \/ \E j \in SubIds : pollTranscription(j)
  \/ \E j \in SubIds, out \in Outcomes : app_uploadResponded(j, out)
  \/ \E j \in SubIds, out \in Outcomes : app_transcribeResponded(j, out)
  \/ \E j \in SubIds, out \in Outcomes : app_poll(j, out, maxAttempts)
  \/ \E j \in SubIds : app_pollTimeout(j)
NextLive ==
  \/ Created = {} /\ acquiring = 0 /\ startRecording
  \/ ~stopDisabled /\ stopRecording
  \/ (audioBlobRef # Null => Submitted = {}) /\ submitTranscription
  \/ Created = {} /\ acquiring = 0 /\ app_startRecording
  \/ app_clickable(stopBtnDisabled) /\ app_stopRecording
  \/ (audioBlob # Null => Submitted = {}) /\ app_submitTranscription
  \/ RecorderCallbacks
  \/ NetCallbacks(maxAttempts)
SpecLive == Init /\ [][NextLive]_vars /\ WF_vars(PipelineSteps)

\* The treatment-plans handler, one request after the other.
NextPlan ==
  \/ \E req \in PlanRequests : handler(req)
  \/ handler_postResolved
  \/ \E err \in PlanErrors : handler_postRejected(err)
  \/ handler_backoffTick
  \/ handler_backoffElapsed
SpecPlan == Init /\ [][NextPlan]_vars

\* Every proxy handler, one request each at a time.
NextProxy ==
  \/ NextPlan
  \/ \E req \in JsonRequests : transcribe_handler(req)
  \/ \E req \in QueryRequests : status_handler(req)
  \/ \E req \in UploadRequests, readable \in BOOLEAN : upload_handler(req, readable)
  \/ \E req \in UploadRequests : server_upload(req)
  \/ \E req \in JsonRequests, body \in {"none", "object", "blank", "value"} :
       server_transcribe(req, body)
  \/ proxy_upstreamResolved
  \/ proxy_upstreamRejected
SpecProxy == Init /\ [][NextProxy]_vars

\* The planner page and the handler that answers it.
NextPlanner ==
  \/ \E item \in StoredItems : planner_useEffect(item)
  \/ planner_fetchReceived
  \/ handler_postResolved
  \/ \E err \in PlanErrors : handler_postRejected(err)
  \/ handler_backoffTick
  \/ handler_backoffElapsed
  \/ \E n \in 0..1 : callPlanner_responded(n)
  \/ callPlanner_fetchFailed
  \/ planner_retry
  \/ planner_select
SpecPlanner == Init /\ [][NextPlanner]_vars

\* ------------------------------------------------------------ the session
\* What the loaded page holds, read the same way for both pages.  app.js keeps
\* no state name: it keeps the flags isRecording and isPaused, read as updateUI
\* reads them (paused when isPaused, whatever isRecording), and audioBlob.
SessionState ==
  IF page = "react" THEN recordingState
  ELSE IF isPaused THEN "paused"
  ELSE IF isRecording THEN "recording"
  ELSE IF audioBlob # Null THEN "stopped"
  ELSE "idle"
Elapsed == IF page = "react" THEN elapsedMs ELSE elapsedTime
FinalAudio == IF page = "react" THEN audioBlobRef ELSE audioBlob
Chunks == IF page = "react" THEN audioChunksRef ELSE audioChunks
ErrorShown == IF page = "react" THEN error ELSE errorMessage
\* What the transcription view shows: nothing, a loading message, the text, or
\* an error message.
Shown ==
  IF page = "plain" THEN transcriptionContent
  ELSE IF transcriptionStatus = "idle" THEN <<>>
  ELSE IF transcriptionStatus = "completed" THEN <<"text", transcriptionText>>
  ELSE IF transcriptionStatus = "error" THEN <<"error", transcriptionMessage>>
  ELSE <<"loading", transcriptionMessage>>
\* The step in which submission j takes a success response to a status fetch.
StatusAnswered(j) ==
  subs[j].pc = "fetch" /\ subs'[j].pc # "fetch" /\ subs'[j].result # "transport"

\* The session as the recording state machine sees it, and what the handlers
\* of each page make of it: resetView, and pauseRecording called on a paused
\* recorder (the resume).
SessionView ==
  [state |-> SessionState, chunks |-> Chunks, final |-> FinalAudio # Null,
   elapsed |-> Elapsed]
\* index.js 123-138
resetView_view(v) == [state |-> "idle", chunks |-> <<>>, final |-> FALSE, elapsed |-> 0]
\* app.js 286-295: audioBlob = null; the flags, the chunks and elapsedTime stay
app_resetView_view(v) ==
  [v EXCEPT !.state = IF v.state \in {"recording", "paused"} THEN v.state ELSE "idle",
            !.final = FALSE]
\* index.js 105-111: startTimer sets elapsedMs to 0
resume_view(v) == [v EXCEPT !.state = "recording", !.elapsed = 0]
\* app.js 81-86: startTime = Date.now() - elapsedTime, elapsedTime stays
app_resume_view(v) == [v EXCEPT !.state = "recording"]

\* ----------------------------------------------------------------- claims
\* C1: the elapsed time the page reports is continuous across a pause: the
\* resume continues from the value at the moment of the pause and does not
\* restart from 0.
C1_ResumeContinuesElapsed ==
  [][(op' = "pauseRecording" /\ SessionState = "paused" /\ SessionState' = "recording")
       => Elapsed' = Elapsed]_vars

\* C2: stop() called in Idle, or again after a stop, is a no-op: the session
\* state is unchanged and no recorder or stream is touched.  This holds in
\* every Idle state, whether it is the initial one or was reached by a reset.
C2_StopIsNoOpWhenIdleOrStopped ==
  [][(op' = "stopRecording" /\ SessionState \in {"idle", "stopped"})
       => /\ SessionState' = SessionState
          /\ UNCHANGED <<recState, streamOpen, stopQueued>>]_vars

\* C3: a reset leaves the session Idle, with no final audio and an empty
\* chunk sequence, whatever the state it is called in.
C3_ResetReachesIdle ==
  op = "resetView" => SessionState = "idle" /\ FinalAudio = Null /\ Chunks = <<>>

\* C4: a reset called while Recording or Paused releases the capture device:
\* after it no recorder is recording or paused, and every stream still open
\* belongs to a recorder whose stop event is on its way.
C4_ResetReleasesDevice ==
  [][(op' = "resetView" /\ SessionState \in {"recording", "paused"})
       => ActiveRecorders' = {} /\ OpenStreams' \subseteq stopQueued']_vars

\* C5: start() is rejected while a session is Recording or Paused, or while
\* an earlier start() is still acquiring the device: it asks for no second
\* device and leaves the recorder in place.
C5_ConcurrentStartRejected ==
  [][(op' = "startRecording" /\ (SessionState \in {"recording", "paused"} \/ acquiring > 0))
       => acquiring' = acquiring /\ SessionRecorder' = SessionRecorder]_vars

\* C6: the page holds at most one microphone stream open at any time.
C6_AtMostOneStream == Cardinality(OpenStreams) <= 1

\* C7: submit() called while there is no final audio fails with the "no audio
\* recorded" error, issues no network request, and leaves the transcription
\* status as it was.
C7_SubmitWithoutAudio ==
  [][(op' = "submitTranscription" /\ FinalAudio = Null)
       => /\ ErrorShown' = MsgNoAudio
          /\ UNCHANGED <<subs, job>>
          /\ UNCHANGED <<Shown, view>>]_vars
\* submit() has been called without audio while an earlier submission is
\* being polled.
C7_Witness ==
  /\ op = "submitTranscription" /\ FinalAudio = Null /\ ErrorShown = MsgNoAudio
  /\ InFlight # {} /\ Shown # <<>>

\* C8: a job that never reaches a terminal status is fetched exactly
\* maxAttempts times: every non-terminal answer before the last schedules the
\* next fetch, the answer to fetch maxAttempts ends the poll with the timeout
\* error, and no further fetch is issued.
C8_TimeoutAfterMaxAttempts ==
  [][\A j \in SubIds :
       /\ subs'[j].fetches <= maxAttempts
       /\ subs'[j].result = "timeout" => subs'[j].fetches = maxAttempts
       /\ (StatusAnswered(j) /\ ~Terminal(job[j].status)) =>
            IF subs[j].fetches < maxAttempts
            THEN subs'[j].pc = "timer"
            ELSE /\ subs'[j].pc = "done" /\ subs'[j].result = "timeout"
                 /\ Shown' = <<"error", MsgTimeout>>]_vars
\* The poll has timed out after maxAttempts fetches.
C8_Witness ==
  \E j \in SubIds :
    /\ subs[j].result = "timeout" /\ subs[j].fetches = maxAttempts
    /\ Shown = <<"error", MsgTimeout>>

\* C9: when the k-th fetch of a job (1 <= k <= maxAttempts) is the first to
\* report Completed, with text t, the poll ends with the completed outcome
\* showing t after exactly those k fetches, and issues no fetch after it.
C9_CompletedResolvesWithText ==
  [][\A j \in SubIds :
       /\ (StatusAnswered(j) /\ job[j].status = "completed") =>
            /\ subs'[j].pc = "done" /\ subs'[j].result = "completed"
            /\ subs'[j].fetches = subs[j].fetches
            /\ job[j].text # "" => Shown' = <<"text", job[j].text>>
       /\ subs[j].pc = "done" => subs'[j] = subs[j]]_vars
\* The fetch number maxAttempts reported Completed and its text is shown.
C9_Witness ==
  \E j \in SubIds :
    /\ subs[j].result = "completed" /\ subs[j].fetches = maxAttempts
    /\ Shown = <<"text", "hello">>

\* C10: a Completed answer whose text is empty ends the poll with the
\* completed outcome showing the placeholder text, not with a failure.
C10_EmptyTextShowsPlaceholder ==
  [][\A j \in SubIds :
       (StatusAnswered(j) /\ job[j].status = "completed" /\ job[j].text = "") =>
         /\ subs'[j].result = "completed"
         /\ Shown' = <<"text", IF page = "react" THEN PlaceholderText
                                ELSE app_PlaceholderText>>]_vars
\* A job completed with no text and the page shows the placeholder.
C10_Witness ==
  \E j \in SubIds :
    /\ subs[j].result = "completed"
    /\ Shown \in {<<"text", PlaceholderText>>, <<"text", app_PlaceholderText>>}

\* C11: a status fetch answered with the provider's error status ends the poll
\* in the error outcome, showing the provider's error detail when it gives
\* one; no further attempt is scheduled and no further fetch is issued.
C11_ProviderErrorFails ==
  [][\A j \in SubIds :
       (StatusAnswered(j) /\ job[j].status = "error") =>
         /\ subs'[j].pc = "done" /\ subs'[j].result = "failed"
         /\ subs'[j].fetches = subs[j].fetches
         /\ Shown' # <<>> /\ Shown'[1] = "error"
         /\ job[j].text # "" => Shown' = <<"error", job[j].text>>]_vars
\* The provider reported an error with a detail, and the page shows it.
C11_Witness ==
  \E j \in SubIds :
    subs[j].result = "failed" /\ subs[j].pc = "done" /\ Shown = <<"error", "bad audio">>

\* C12: a status fetch that rejects, or is answered with a non-success
\* response, ends the poll at once in the error outcome, whatever the number
\* of the attempt: the fetch is not repeated and no later attempt is scheduled.
C12_TransportErrorFails ==
  [][\A j \in SubIds :
       (subs[j].pc = "fetch" /\ subs'[j].pc # "fetch" /\ subs'[j].out # "ok") =>
         /\ subs'[j].pc = "done" /\ subs'[j].result = "transport"
         /\ subs'[j].fetches = subs[j].fetches /\ subs'[j].open = 0
         /\ Shown' \in {<<"error", MsgStatusFailed>>, <<"error", MsgFetchRejected>>}]_vars
\* The last allowed fetch was rejected and the poll ended with its error.
C12_Witness ==
  \E j \in SubIds :
    /\ subs[j].pc = "done" /\ subs[j].out = "rejected" /\ subs[j].fetches = maxAttempts
    /\ Shown = <<"error", MsgFetchRejected>>

\* C13: the status fetches of one job are strictly sequential: at most one is
\* in flight at any time, none is in flight while the timer of the next
\* attempt is pending, and a fetch is issued only once the one before it has
\* been answered.
C13_AttemptsSequential ==
  [][\A j \in SubIds :
       /\ subs'[j].open <= 1
       /\ subs'[j].pc = "timer" => subs'[j].open = 0
       /\ subs'[j].fetches > subs[j].fetches =>
            subs[j].open = 0 /\ subs'[j].fetches = subs[j].fetches + 1]_vars
\* A later attempt of a job is in flight.
C13_Witness == \E j \in SubIds : subs[j].fetches >= 3 /\ subs[j].open = 1

\* C14: a reset cancels the poller: the poller step that follows a reset issues
\* no status fetch and changes nothing of what the transcription view shows,
\* whether the reset came while the timer of the next attempt was pending or
\* while a status fetch was in flight.
C14_ResetCancelsPoller ==
  [][(op = "resetView" /\ op' \in {"executePoll", "pollTranscription", "poll", "pollTimeout"})
       => /\ UNCHANGED Shown
          /\ \A j \in SubIds : subs'[j].fetches = subs[j].fetches]_vars

\* C15: the planning call makes exactly 2 upstream attempts when the first
\* fails with a timeout-class error (code ECONNABORTED or ETIMEDOUT, or a
\* message containing "timeout" in any letter case), exactly 1 when the first
\* fails with any other error, which is answered at once as a failure, and
\* never a third.
C15_PlanningAttempts ==
  [][LET timeoutClass(e) ==
           \/ e.code \in {"ECONNABORTED", "ETIMEDOUT"}
           \/ \E i \in 1..Len(e.message) : e.message[i] \in {"timeout", "Timeout", "TIMEOUT"}
     IN  /\ plan'.posts <= 2
         /\ (plan.pc = "post" /\ plan.attempt = 1 /\ Len(plan'.errors) = 1) =>
              IF timeoutClass(plan'.errors[1])
              THEN plan'.pc = "backoff" /\ plan'.status = 0
              ELSE plan'.pc = "done" /\ plan'.posts = 1 /\ plan'.status >= 500
         /\ (plan.pc = "backoff" /\ plan' # plan) => plan'.pc = "post" /\ plan'.posts = 2
         /\ (plan'.pc = "done" /\ plan'.errors # <<>>) =>
              plan'.posts = IF timeoutClass(plan'.errors[1]) THEN 2 ELSE 1]_vars
\* A first attempt failed with a message that only names a timeout, the retry
\* was made and failed with an error of another kind.
C15_Witness ==
  /\ plan.pc = "done" /\ plan.posts = 2 /\ Len(plan.errors) = 2
  /\ plan.errors[1].code = "" /\ plan.errors[1].message = <<"Gateway", "Timeout">>
  /\ plan.status = 500

\* C16: the submission pipeline runs in order: the upload, then the job
\* creation, then the poller.  An upload that does not succeed is followed by
\* no job-creation request, a job creation that does not succeed by no status
\* fetch, and both end the pipeline in the error outcome.
C16_PipelineInOrder ==
  [][\A j \in SubIds :
       /\ subs'[j].pc = "upload" => subs[j].pc \in {"none", "upload"}
       /\ subs'[j].pc = "transcribe" => subs[j].pc \in {"upload", "transcribe"}
       /\ subs'[j].fetches > 0 => subs[j].pc \in {"transcribe", "fetch", "timer", "done"}
       /\ (subs[j].pc = "upload" /\ subs'[j].pc # "upload") =>
            IF subs'[j].out = "ok" THEN subs'[j].pc = "transcribe"
            ELSE /\ subs'[j].pc = "done" /\ subs'[j].fetches = 0
                 /\ Shown' # <<>> /\ Shown'[1] = "error"
       /\ (subs[j].pc = "transcribe" /\ subs'[j].pc # "transcribe") =>
            IF subs'[j].out = "ok" THEN subs'[j].pc = "fetch" /\ subs'[j].fetches = 1
            ELSE /\ subs'[j].pc = "done" /\ subs'[j].fetches = 0
                 /\ Shown' # <<>> /\ Shown'[1] = "error"]_vars
\* The job creation got a non-success response after a successful upload.
C16_Witness ==
  \E j \in SubIds :
    /\ subs[j].result = "startFailed" /\ subs[j].out = "notok" /\ subs[j].fetches = 0
    /\ Shown = <<"error", MsgStartFailed>>

\* C17: the submission pipeline is single-flight per session: a
\* submitTranscription() made while a submission of the same session is in
\* progress (uploading, starting the job, or polling) starts no second pipeline.
C17_SubmitSingleFlight ==
  [][(op' = "submitTranscription" /\ \E j \in InFlight : subs[j].rec = SessionRecorder)
       => InFlight' = InFlight]_vars

\* C18: in every reachable state there is final audio if and only if the
\* session is Stopped and at least one chunk was captured.
C18_FinalAudioIffStoppedWithChunks ==
  FinalAudio # Null <=> (SessionState = "stopped" /\ Chunks # <<>>)

\* C19, as stated: pause() called when the session is not Recording (Idle,
\* Paused or Stopped) changes neither the session state, nor the recorder, nor
\* the accumulation of elapsed time.
C19_PauseIsNoOpOutsideRecording ==
  [][(op' = "pauseRecording" /\ SessionState # "recording")
       => /\ SessionState' = SessionState
          /\ UNCHANGED <<recState, intervalDue>>
          /\ Elapsed' = Elapsed]_vars
\* C19, amended: the pause handler goes by the state of the page's recorder.
\* With no recorder or an inactive one (the initial Idle state, Stopped) it
\* changes nothing; on a paused recorder it resumes the recording; on a
\* recording one it pauses and keeps the elapsed time.
C19_PauseGoesByRecorderState ==
  [][op' = "pauseRecording" =>
       LET r == SessionRecorder IN
       IF r = 0 \/ recState[r] = "inactive"
       THEN UNCHANGED <<browserVars, netVars, reactVars, appVars, plan, plannerVars>>
       ELSE IF recState[r] = "paused"
       THEN recState'[r] = "recording" /\ SessionState' = "recording"
       ELSE recState'[r] = "paused" /\ SessionState' = "paused" /\ Elapsed' = Elapsed]_vars
\* The pause handler was called in Stopped and left it Stopped.
C19_Witness ==
  /\ op = "pauseRecording" /\ SessionState = "stopped"
  /\ SessionRecorder # 0 /\ recState[SessionRecorder] = "inactive"

\* C20: start() clears any prior chunks and prior result: while the recording
\* that a successful start() began is running or paused, the chunk sequence
\* holds only chunks of that recording and there is no final audio.
C20_StartClearsPrior ==
  SessionState \in {"recording", "paused"}
    => /\ FinalAudio = Null
       /\ \A i \in 1..Len(Chunks) : Chunks[i] = SessionRecorder

\* C21: when getUserMedia rejects (permission denied, no device), start() fails
\* with the microphone error shown to the user: the session state is as it
\* was (it does not enter Recording), no recorder is created, no timer is
\* started and no stream is opened.
C21_DeviceUnavailable ==
  [][op' = "startRecordingRejected" =>
       /\ ErrorShown' = MsgMicFailed
       /\ SessionState' = SessionState
       /\ SessionRecorder' = SessionRecorder
       /\ UNCHANGED <<recState, streamOpen, intervalDue>>]_vars
\* The first start() of a session failed: the page is Idle with the error
\* shown, and there is no recorder, no stream and no timer.
C21_Witness ==
  /\ op = "startRecordingRejected" /\ ErrorShown = MsgMicFailed
  /\ SessionState = "idle" /\ Created = {} /\ OpenStreams = {}
  /\ \A i \in IntervalIds : intervalDue[i] = Off

\* C22: each successful start() opens exactly one stream, that of the recorder
\* it creates; a stop() called in Recording or Paused stops that recorder and
\* queues its stop event; a stream is closed only by the stop event of its own
\* recorder and is never opened again; once the stop event of a stopped
\* recorder has run, its stream is closed.
C22_AcquireAndReleaseOnce ==
  [][/\ op' = "startRecordingResolved" =>
          /\ SessionRecorder' \notin OpenStreams
          /\ OpenStreams' = OpenStreams \cup {SessionRecorder'}
     /\ (op' = "stopRecording" /\ SessionState \in {"recording", "paused"}) =>
          /\ recState'[SessionRecorder] = "inactive"
          /\ SessionRecorder \in stopQueued'
          /\ SessionRecorder' = SessionRecorder
     /\ \A r \in RecorderIds :
          /\ (streamOpen[r] /\ ~streamOpen'[r]) => (op' = "onstop" /\ r \in stopQueued \ stopQueued')
          /\ (r \in Created /\ ~streamOpen[r]) => ~streamOpen'[r]
          /\ (recState'[r] = "inactive" /\ r \notin stopQueued') => ~streamOpen'[r]]_vars
\* A recording was stopped, the stop event of its recorder has run, and the
\* stream of that recorder is closed.
C22_Witness ==
  /\ op = "onstop" /\ SessionRecorder # 0
  /\ recState[SessionRecorder] = "inactive" /\ SessionRecorder \notin stopQueued
  /\ ~streamOpen[SessionRecorder] /\ SessionState = "stopped"

\* C23: final audio is produced only by the stop event that completes the
\* transition to Stopped, and is the concatenation, in arrival order, of the
\* chunks of the recording that was stopped and of no other; the chunk sequence
\* changes only by the append of a chunk of the current recording, or by being
\* emptied at a start or a reset.
C23_FinalAudioIsSessionChunks ==
  [][/\ (FinalAudio' # FinalAudio /\ FinalAudio' # Null) =>
          /\ op' = "onstop" /\ SessionState' = "stopped"
          /\ FinalAudio' = Blob(Chunks')
          /\ \A i \in 1..Len(Chunks') : Chunks'[i] = SessionRecorder'
     /\ Chunks' # Chunks =>
          \/ Chunks' = <<>> /\ op' \in {"startRecording", "startRecordingResolved", "resetView"}
          \/ Chunks' = Append(Chunks, SessionRecorder) /\ op' = "onstop"]_vars

\* C24: every failure of the submission pipeline is surfaced.  The step in
\* which a submission ends by a failed upload, a failed job creation, a failure
\* reported by the provider, a poll timeout or a failed status fetch leaves the
\* transcription in the error outcome with a non-empty message; and the page
\* never shows the uploading or processing message once no submission is in
\* flight.
C24_FailuresSurfaced ==
  [][LET Failures == {"uploadFailed", "startFailed", "failed", "timeout", "transport"}
     IN  /\ \A j \in SubIds :
              (subs[j].pc # "done" /\ subs'[j].pc = "done" /\ subs'[j].result \in Failures)
                => /\ Shown' # <<>>
                   /\ Shown'[1] = "error"
                   /\ Shown'[2] # ""
         /\ (InFlight' = {} /\ Shown' # <<>>) => Shown'[1] \in {"text", "error"}]_vars
\* The provider reported a failure without a detail, and the page shows the
\* default failure message.
C24_Witness ==
  \E j \in SubIds :
    /\ subs[j].pc = "done" /\ subs[j].result = "failed"
    /\ Shown = <<"error", MsgProviderFailed>> /\ InFlight = {}

\* The error states of the page: the microphone or no-audio error is shown, or
\* the transcription is in the error outcome.
ErrorState == ErrorShown # "" \/ (Shown # <<>> /\ Shown[1] = "error")

\* C25: no error is fatal.  A reset can be called in every error state and
\* clears the error; the start() that follows it is accepted and leaves no
\* error and no transcription shown; and when its getUserMedia resolves the
\* session is Recording with an empty chunk sequence, the transcription still
\* idle and no error shown.
C25_RecoverByResetAndStart ==
  [][/\ (ErrorState /\ op' = "resetView") => ~ErrorState'
     /\ (op = "resetView" /\ op' = "startRecording") =>
          (~ErrorState' /\ Shown' = <<>> /\ acquiring' = acquiring + 1)
     /\ (op = "startRecording" /\ op' = "startRecordingResolved") =>
          /\ SessionState' = "recording" /\ Chunks' = <<>>
          /\ Shown' = Shown /\ ErrorShown' = ErrorShown]_vars
\* A status fetch failed, the view was reset, a new recording was started, and
\* the session is Recording with no chunk, no transcription and no error shown.
C25_Witness ==
  /\ page = "plain" /\ op = "startRecordingResolved" /\ SessionState = "recording"
  /\ \E j \in SubIds : subs[j].result = "transport"
  /\ Chunks = <<>> /\ Shown = <<>> /\ ~ErrorState

\* The status of the job as the page shows it.
LocalStatus ==
  IF Shown = <<>> THEN "none"
  ELSE IF Shown[1] = "text" THEN "completed"
  ELSE IF Shown[1] = "error" THEN "failed"
  ELSE IF Shown[2] = MsgUploading THEN "uploading"
  ELSE IF Shown[2] = "Processing transcription... (queued)" THEN "queued"
  ELSE "processing"
\* The steps of the submission pipeline and of the poller.
PipelineOps ==
  {"uploadResponded", "transcribeResponded", "executePoll", "pollTranscription", "poll",
   "pollTimeout"}

C27_TextOnlyWhenCompleted ==
  transcriptionText # "" => transcriptionStatus = "completed"

\* C28: when every request is answered, every timer fires and the view is not
\* reset, every submission that was started ends: it reaches a terminal
\* outcome, completed or an error, after at most maxAttempts status fetches.
C28_SubmissionTerminates ==
  \A j \in SubIds :
    (subs[j].pc \in {"upload", "transcribe", "fetch", "timer"})
      ~> /\ subs[j].pc = "done"
         /\ subs[j].result \in {"completed", "uploadFailed", "startFailed", "failed",
                                "timeout", "transport"}
         /\ subs[j].fetches <= maxAttempts
         /\ Shown # <<>> /\ Shown[1] \in {"text", "error"}
\* A submission ended by the provider's error status at the last allowed fetch.
C28_Witness ==
  \E j \in SubIds :
    subs[j].pc = "done" /\ subs[j].result = "failed" /\ subs[j].fetches = maxAttempts

\* C29: the elapsed time is frozen outside Recording: while the session is
\* Paused or Stopped the elapsed time the page reports does not change, until
\* the next resume, start or reset.
C29_ElapsedFrozenOutsideRecording ==
  [][(/\ SessionState \in {"paused", "stopped"}
      /\ op' \notin {"pauseRecording", "startRecording", "startRecordingResolved", "resetView"})
       => Elapsed' = Elapsed]_vars

\* C30: on the React page a reset made while the timer of a job's next attempt
\* is pending cancels that timer, and no status fetch is issued for that job
\* afterwards.
C30_ResetCancelsPendingTimer ==
  [][\A j \in SubIds :
       /\ (page = "react" /\ op' = "resetView" /\ subs[j].pc = "timer") =>
            /\ subs'[j].pc = "done" /\ subs'[j].result = "cancelled"
            /\ subs'[j].fetches = subs[j].fetches
       /\ subs[j].result = "cancelled" => subs'[j] = subs[j]]_vars

\* C31: in the planning call the second upstream attempt is issued only after
\* the first attempt failed with a timeout-class error and the fixed 2000 ms
\* backoff that follows the failure has run out; the wait starts at 2000 ms,
\* only runs down, and no upstream request is in flight while it lasts.
C31_RetryAfterBackoff ==
  [][LET timeoutClass(e) ==
           \/ e.code \in {"ECONNABORTED", "ETIMEDOUT"}
           \/ \E i \in 1..Len(e.message) : e.message[i] \in {"timeout", "Timeout", "TIMEOUT"}
     IN  /\ (plan.posts = 1 /\ plan'.posts = 2) =>
              /\ plan.pc = "backoff" /\ backoffTimer = 0
              /\ Len(plan.errors) = 1 /\ timeoutClass(plan.errors[1])
         /\ (plan.pc = "post" /\ plan'.pc = "backoff") => backoffTimer' = 2000
         /\ (plan.pc = "backoff" /\ plan'.pc = "backoff") => backoffTimer' <= backoffTimer
         /\ plan.pc = "backoff" => PlanInFlight = 0]_vars
\* The second attempt is in flight, issued once the backoff after a timed-out
\* first attempt had run out.
C31_Witness ==
  /\ plan.pc = "post" /\ plan.posts = 2 /\ PlanInFlight = 1 /\ backoffTimer = 0
  /\ Len(plan.errors) = 1 /\ plan.errors[1].code = "ECONNABORTED"

\* C32: an invocation of the planning handler that enters its retry loop sends
\* exactly one response: none while an attempt or the backoff is pending, and
\* one when it ends: 200 as soon as an attempt succeeds, 504 when the last
\* attempt failed with a timeout-class error, 500 when it failed with any other
\* error.  Once sent the response is not replaced.
C32_OneResponse ==
  [][LET timeoutClass(e) ==
           \/ e.code \in {"ECONNABORTED", "ETIMEDOUT"}
           \/ \E i \in 1..Len(e.message) : e.message[i] \in {"timeout", "Timeout", "TIMEOUT"}
         failed == Len(plan'.errors) = Len(plan.errors) + 1
     IN  /\ plan'.pc \in {"post", "backoff"} => plan'.status = 0
         /\ (plan.pc = "post" /\ plan' # plan) =>
              IF ~failed THEN plan'.pc = "done" /\ plan'.status = 200 /\ plan'.posts = plan.posts
              ELSE IF plan.attempt = 1 /\ timeoutClass(plan'.errors[Len(plan'.errors)])
              THEN plan'.pc = "backoff"
              ELSE /\ plan'.pc = "done"
                   /\ plan'.status =
                        IF timeoutClass(plan'.errors[Len(plan'.errors)]) THEN 504 ELSE 500
         /\ (plan.pc = "done" /\ plan'.pc = "done" /\ plan'.req = plan.req
               /\ plan.posts > 0 /\ plan'.posts = plan.posts /\ plan'.errors = plan.errors)
              => plan'.status = plan.status
         /\ (plan'.pc = "done" /\ plan'.posts > 0) => plan'.status \in {200, 500, 504}]_vars
\* Both attempts failed, the last with a message that only names a timeout:
\* the handler answered 504.
C32_Witness ==
  /\ plan.pc = "done" /\ plan.posts = 2 /\ Len(plan.errors) = 2 /\ plan.status = 504
  /\ plan.errors[2].code = "" /\ plan.errors[2].message = <<"Gateway", "Timeout">>

\* C33: after a reset the session stays discarded until the next start: a
\* capture callback that runs in the meantime leaves the chunk sequence empty,
\* sets no final audio and does not enable submission.  The session is
\* discarded right after resetView and, on the React page, as long as the
\* state is Idle and no start is under way.
C33_ResetDiscardsLateCallbacks ==
  [][LET discarded ==
           \/ op = "resetView"
           \/ page = "react" /\ recordingState = "idle" /\ acquiring = 0
         submitEnabled == IF page = "react" THEN canSubmit ELSE ~submitBtnDisabled
     IN  (discarded /\ op' = "onstop") =>
           /\ Chunks' = <<>>
           /\ FinalAudio' = Null
           /\ ~submitEnabled']_vars

\* C34: the final audio of a recording holds chunks of that recording's own
\* recorder only.  The stop event of a recorder that is not the current
\* session's recorder (one stopped or superseded before the current start)
\* changes neither the chunk sequence nor the final audio, and a final audio
\* never mixes the chunks of two recorders.
C34_LateCallbacksKeptOut ==
  [][/\ \A r \in RecorderIds :
          (op' = "onstop" /\ r \in stopQueued /\ r \notin stopQueued' /\ r # SessionRecorder) =>
            /\ Chunks' = Chunks
            /\ FinalAudio' = FinalAudio
     /\ FinalAudio' # Null =>
          \A i, k \in 1..Len(FinalAudio'[1]) : FinalAudio'[1][i] = FinalAudio'[1][k]]_vars

\* C35: submission is possible only for a finalized recording.  Whenever the
\* submit button is enabled the session is Stopped and the audio to upload is
\* the blob built from the chunks of the recorder that was stopped last, and no
\* upload starts while the session is Recording or Paused.
C35_SubmitOnlyFinalized ==
  [][LET submitEnabled == IF page = "react" THEN canSubmit
                          ELSE view = "recording" /\ ~submitBtnDisabled
     IN  /\ submitEnabled' =>
              /\ SessionState' = "stopped"
              /\ FinalAudio' # Null
              /\ \A i \in 1..Len(FinalAudio'[1]) : FinalAudio'[1][i] = SessionRecorder'
         /\ (\E j \in SubIds : subs[j].pc = "none" /\ subs'[j].pc = "upload") =>
              SessionState \notin {"recording", "paused"}]_vars

\* C36: the interval timer of the elapsed-time display runs if and only if the
\* session is Recording, and there is never more than one live interval timer.
C36_OneTimerIffRecording ==
  LET live == {i \in IntervalIds : intervalDue[i] # Off}
  IN  /\ Cardinality(live) <= 1
      /\ live # {} <=> SessionState = "recording"

\* C37: the two recorder pages implement the same recording state machine.
\* Whatever page runs, a reset and a resume of a paused session leave the
\* session (state, chunk sequence, final audio or none, elapsed time) as the
\* handler of that page makes it, and the handlers of the two pages make the
\* same of the same session.
C37_PagesAgree ==
  [][/\ op' = "resetView" =>
          /\ SessionView' = IF page = "react" THEN resetView_view(SessionView)
                            ELSE app_resetView_view(SessionView)
          /\ resetView_view(SessionView) = app_resetView_view(SessionView)
     /\ (op' = "pauseRecording" /\ SessionState = "paused" /\ SessionState' = "recording") =>
          /\ SessionView' = IF page = "react" THEN resume_view(SessionView)
                            ELSE app_resume_view(SessionView)
          /\ resume_view(SessionView) = app_resume_view(SessionView)]_vars

\* C38: a proxy handler answers a request of its own method that lacks the
\* required input with status 400 and makes no upstream call for it: an upload
\* without an audio file, a transcribe without audioUrl, a transcript status
\* without an id, a treatment-plans request without session_id or
\* treatment_planner_text.
C38_MissingInputRejected ==
  /\ (/\ proxy.handler # ""
      /\ proxy.req.method = (IF proxy.handler = "status" THEN "GET" ELSE "POST")
      /\ proxy.req.input # "value") =>
       proxy.pc = "done" /\ proxy.status = 400 /\ proxy.upstream = 0
  /\ (/\ plan.pc # "idle"
      /\ plan.req.method = "POST"
      /\ (plan.req.session_id = "" \/ plan.req.text = <<>>)) =>
       plan.pc = "done" /\ plan.status = 400 /\ plan.posts = 0

\* C39: the planner page asks for a plan only when there is transcript text.
\* When the page loaded without a stored transcription text it has made no
\* request to /api/treatment-plans and shows the "No transcription text found"
\* reason.
C39_NoTextNoRequest ==
  (planner.pc # "unloaded" /\ loadTranscription(planner.stored) = <<>>) =>
    /\ planner.requests = 0
    /\ planner_errorPanel = MsgNoText
====
